---------------------------- MODULE Spec2Model ----------------------------
(***************************************************************************)
(* A model of foxysafe: the GitLab backup routine (gitlab/backups.py), the *)
(* discovery of the items to back up (gitlab/api.py) and the parallel      *)
(* clone phases with their worker functions (git/clone.py).                *)
(***************************************************************************)
EXTENDS Integers, Sequences, FiniteSets, TLC

(***************************************************************************)
(* Bounds of the model.                                                    *)
(***************************************************************************)
MaxBranches == 2
MaxSubmodules == 1
MaxGroups == 3

Min(a, b) == IF a < b THEN a ELSE b
Max(a, b) == IF a > b THEN a ELSE b

RECURSIVE SeqToSet(_)
SeqToSet(s) == IF s = <<>> THEN {} ELSE {Head(s)} \cup SeqToSet(Tail(s))

(***************************************************************************)
(* git/clone.py: the worker functions.  A worker function is a pure         *)
(* function of its argument and of the outcomes of the external operations *)
(* it performs (git, the filesystem): the outcomes are the record env.     *)
(* An outcome is "ok", "exc" (the operation raises an Exception) or "kbi"  *)
(* (a KeyboardInterrupt is raised while the operation runs).               *)
(***************************************************************************)
Outcomes == {"ok", "exc", "kbi"}

\* The lines `git branch --all` prints for a clone with n remote branches, each
\* line a pair <<prefix, name>>; an empty repository prints nothing.
BranchAllOutput(n) ==
    <<<<"*", "main">>, <<"remotes/origin/HEAD", "-> origin/main">>>>
        \o [i \in 1..n |-> <<"remotes/origin", "b" \o ToString(i)>>]

NoBranchOutput == <<<<"", "">>>>

\* .replace("remotes/", "")
StripRemotes(prefix) ==
    CASE prefix = "remotes/origin" -> "origin"
      [] prefix = "remotes/origin/HEAD" -> "origin/HEAD"
      [] OTHER -> prefix

\* .replace("remotes/", "").split("\n")[2:], then strip() of every line.
ParseRemoteBranches(lines) ==
    IF Len(lines) <= 2 THEN <<>>
    ELSE [i \in 1..(Len(lines) - 2) |-> <<StripRemotes(lines[i + 2][1]), lines[i + 2][2]>>]

\* The outcomes of one run of a worker function.
\*   unpack     args unpacking and the reads of the item's attributes
\*   clone      git.Repo.clone_from
\*   submodules the URLs of the submodules the repository declares
\*   subupdate  repository.submodule_update
\*   branchall  repository.git.branch("--all")
\*   lines      the lines it prints
\*   track      per remote branch, repository.git.branch("--track", ...)
\*   fetchpull  "ok", "fetch_exc", "pull_exc" or "kbi" for fetch + pull
\*   sidecar    open + json.dump of the sidecar file
AllEnvs ==
    [unpack : {"ok", "exc"},
     clone : Outcomes,
     submodules : {[i \in 1..n |-> "sub" \o ToString(i)] : n \in 0..MaxSubmodules},
     subupdate : Outcomes,
     branchall : Outcomes,
     lines : {NoBranchOutput} \cup {BranchAllOutput(n) : n \in 0..MaxBranches},
     track : [1..MaxBranches -> {"ok", "exc"}],
     fetchpull : {"ok", "fetch_exc", "pull_exc", "kbi"},
     sidecar : Outcomes]

OkEnv ==
    [unpack |-> "ok", clone |-> "ok", submodules |-> <<>>, subupdate |-> "ok",
     branchall |-> "ok", lines |-> BranchAllOutput(1), track |-> [i \in 1..MaxBranches |-> "ok"],
     fetchpull |-> "ok", sidecar |-> "ok"]

\* An outcome no run reads is left at its value in OkEnv: the operations after
\* a failed unpacking or clone, the update of no submodules, the tracking and
\* fetch/pull of at most one remote branch.
Canonical(env) ==
    /\ env.unpack = "exc" => env = [OkEnv EXCEPT !.unpack = "exc"]
    /\ env.clone # "ok" => env = [OkEnv EXCEPT !.clone = env.clone]
    /\ env.submodules = <<>> => env.subupdate = "ok"
    /\ Len(env.lines) <= 3 => env.track = OkEnv.track /\ env.fetchpull = "ok"
    /\ \A i \in 1..MaxBranches : i > Len(env.lines) - 2 => env.track[i] = "ok"

Envs == {env \in AllEnvs : Canonical(env)}

\* The state of a run: the result dict built so far, the external operations
\* performed so far (ops), the exception in flight (exc), whether the item
\* variable (project, snippet) is bound, and the repository (None = FALSE).
Running(st) == st.exc = "none"

InitRun(result) ==
    [result |-> result, ops |-> <<>>, exc |-> "none", bound |-> FALSE, repository |-> FALSE]

Set(st, key, value) == [st EXCEPT !.result = [@ EXCEPT ![key] = value]]

\* result[key] = value for a key the dict may not hold yet.
SetNew(st, key, value) ==
    [st EXCEPT !.result = [k \in DOMAIN @ \cup {key} |-> IF k = key THEN value ELSE @[k]]]

Do(st, op) == [st EXCEPT !.ops = Append(@, op)]

\* A variant that goes on with a repository after a failed clone.
CloneStepLenient(st, url, target_path, env) ==
    IF ~Running(st) THEN st
    ELSE LET s == Do(st, <<"clone", url, target_path>>) IN
         CASE env.clone = "ok" -> [Set(s, "is_cloned", TRUE) EXCEPT !.repository = TRUE]
           [] env.clone = "exc" -> [s EXCEPT !.repository = TRUE]
           [] OTHER -> [s EXCEPT !.exc = "kbi"]

\* try: repository = git.Repo.clone_from(url, target_path) ... except Exception
CloneStep(st, url, target_path, env) ==
    IF ~Running(st) THEN st
    ELSE LET s == Do(st, <<"clone", url, target_path>>) IN
         CASE env.clone = "ok" -> [Set(s, "is_cloned", TRUE) EXCEPT !.repository = TRUE]
           [] env.clone = "exc" -> s
           [] OTHER -> [s EXCEPT !.exc = "kbi"]

\* A variant without the try: a failed update leaves the worker's try block.
SubmoduleStepStrict(st, env) ==
    IF ~Running(st) \/ ~st.repository \/ env.submodules = <<>> THEN st
    ELSE LET s == Do(Set(st, "submodules", env.submodules), <<"submodule_update">>) IN
         CASE env.subupdate = "ok" -> SetNew(s, "is_submodules_cloned", TRUE)
           [] env.subupdate = "exc" -> [s EXCEPT !.exc = "exc"]
           [] OTHER -> [s EXCEPT !.exc = "kbi"]

\* if repository.submodules: try: ... submodule_update ... except Exception
SubmoduleStep(st, env) ==
    IF ~Running(st) \/ ~st.repository \/ env.submodules = <<>> THEN st
    ELSE LET s == Do(Set(st, "submodules", env.submodules), <<"submodule_update">>) IN
         CASE env.subupdate = "ok" -> SetNew(s, "is_submodules_cloned", TRUE)
           [] env.subupdate = "exc" -> s
           [] OTHER -> [s EXCEPT !.exc = "kbi"]

\* A variant that leaves the loop at the first branch that cannot be tracked.
RECURSIVE TrackBranchesStop(_, _, _, _)
TrackBranchesStop(st, branches, i, env) ==
    IF i > Len(branches) THEN st
    ELSE IF env.track[i] = "exc" THEN Do(st, <<"track", branches[i], env.track[i]>>)
    ELSE TrackBranchesStop(Do(st, <<"track", branches[i], env.track[i]>>), branches, i + 1, env)

\* for remote_branch in remote_branches: try: branch --track except Exception
RECURSIVE TrackBranches(_, _, _, _)
TrackBranches(st, branches, i, env) ==
    IF i > Len(branches) THEN st
    ELSE TrackBranches(Do(st, <<"track", branches[i], env.track[i]>>), branches, i + 1, env)

\* try: fetch --all; pull --all; is_branches_updated = True except Exception
FetchPullStep(st, env) ==
    CASE env.fetchpull = "ok" ->
            Set(Do(Do(st, <<"fetch">>), <<"pull">>), "is_branches_updated", TRUE)
      [] env.fetchpull = "fetch_exc" -> Do(st, <<"fetch">>)
      [] env.fetchpull = "pull_exc" -> Do(Do(st, <<"fetch">>), <<"pull">>)
      [] OTHER -> [Do(st, <<"fetch">>) EXCEPT !.exc = "kbi"]

\* remote_branches = repository.git.branch("--all")...; the tracking loop and
\* fetch/pull when there is more than one remote branch.
BranchStep(st, env) ==
    IF ~Running(st) \/ ~st.repository THEN st
    ELSE LET s == Do(st, <<"branch_all">>) IN
         CASE env.branchall = "exc" -> [s EXCEPT !.exc = "exc"]
           [] env.branchall = "kbi" -> [s EXCEPT !.exc = "kbi"]
           [] OTHER ->
                LET remote_branches == ParseRemoteBranches(env.lines)
                    s2 == Set(s, "branches", remote_branches)
                IN IF Len(remote_branches) > 1
                   THEN FetchPullStep(TrackBranches(s2, remote_branches, 1, env), env)
                   ELSE Set(s2, "is_branches_updated", TRUE)

\* with open(Path(target_path) / f"../<kind>_{id}.json", "w") as f: json.dump(...)
SidecarPath(target_path, kind, id) == target_path \o <<"..", kind \o "_" \o ToString(id) \o ".json">>

\* A variant that logs a failed write and goes on.
SidecarStepLenient(st, path, env) ==
    IF ~Running(st) \/ ~st.repository THEN st
    ELSE LET s == Do(st, <<"sidecar", path>>) IN
         IF env.sidecar = "kbi" THEN [s EXCEPT !.exc = "kbi"] ELSE s

SidecarStep(st, path, env) ==
    IF ~Running(st) \/ ~st.repository THEN st
    ELSE LET s == Do(st, <<"sidecar", path>>) IN
         CASE env.sidecar = "ok" -> s
           [] env.sidecar = "exc" -> [s EXCEPT !.exc = "exc"]
           [] OTHER -> [s EXCEPT !.exc = "kbi"]

\* result["success"] = True if is_cloned and (bool(submodules) is
\* is_submodules_updated) and is_branches_updated else False
SuccessOf(result) ==
    /\ result["is_cloned"]
    /\ (result["submodules"] # <<>>) = result["is_submodules_updated"]
    /\ result["is_branches_updated"]

SuccessStep(st) ==
    IF ~Running(st) \/ ~st.repository THEN st
    ELSE Set(st, "success", SuccessOf(st.result))

\* except KeyboardInterrupt / except Exception: the log call, then
\* result["success"] = False.  needsItem: the log call reads the item variable,
\* which raises UnboundLocalError when the unpacking failed.
Handlers(st, needsItem) ==
    IF Running(st) THEN st
    ELSE IF needsItem /\ ~st.bound THEN [st EXCEPT !.exc = "exc"]
    ELSE [Set(st, "success", FALSE) EXCEPT !.exc = "none"]

\* A variant with the return after the try statement: an exception raised in
\* a handler stays in flight.
FinallyReturnAfter(st) == st

\* finally: return result (the return discards any exception in flight).
FinallyReturn(st) == [st EXCEPT !.exc = "none"]

\* project, target_path = args; result.update({...})
Unpack(st, identity, env) ==
    IF env.unpack = "ok"
    THEN [st EXCEPT !.bound = TRUE,
                    !.result = [k \in DOMAIN @ |-> IF k \in DOMAIN identity THEN identity[k] ELSE @[k]]]
    ELSE [st EXCEPT !.exc = "exc"]

ProjectResult ==
    [project_name |-> <<>>, project_url |-> <<>>, project_id |-> 0, project_path |-> <<>>,
     is_cloned |-> FALSE, submodules |-> <<>>, is_submodules_updated |-> FALSE,
     branches |-> <<>>, is_branches_updated |-> FALSE, success |-> FALSE]

WikiResult ==
    [wiki_name |-> <<>>, wiki_url |-> <<>>, wiki_id |-> 0, wiki_path |-> <<>>,
     is_cloned |-> FALSE, submodules |-> <<>>, is_submodules_updated |-> FALSE,
     branches |-> <<>>, is_branches_updated |-> FALSE, success |-> FALSE]

SnippetResult ==
    [snippet_title |-> <<>>, snippet_url |-> <<>>, snippet_id |-> 0, snippet_path |-> <<>>,
     is_cloned |-> FALSE, success |-> FALSE]

\* web_url.replace("/-/", "/") on a URL held as the sequence of its segments.
ReplaceDash(url) == SelectSeq(url, LAMBDA seg : seg # "-")

\* args = (object, target_path).  An object is a record with id, name (title),
\* web_url and path_with_namespace; strings are sequences ("" is <<>>), URLs
\* and paths sequences of segments.
clone_project(args, env) ==
    LET project == args[1]
        target_path == args[2]
        s1 == Unpack(InitRun(ProjectResult),
                     [project_name |-> project.name, project_url |-> project.web_url,
                      project_id |-> project.id, project_path |-> target_path], env)
        s2 == CloneStep(s1, project.web_url, target_path, env)
        s3 == SubmoduleStep(s2, env)
        s4 == BranchStep(s3, env)
        s5 == SidecarStep(s4, SidecarPath(target_path, "project", project.id), env)
        s6 == SuccessStep(s5)
    IN FinallyReturn(Handlers(s6, TRUE))

clone_wiki(args, env) ==
    LET obj == args[1]
        target_path == args[2]
        s1 == Unpack(InitRun(WikiResult),
                     [wiki_name |-> obj.name \o <<" Wiki">>, wiki_url |-> obj.web_url \o <<".wiki.git">>,
                      wiki_id |-> obj.id, wiki_path |-> target_path], env)
        s2 == CloneStep(s1, obj.web_url \o <<".wiki.git">>, target_path, env)
        s3 == SubmoduleStep(s2, env)
        s4 == BranchStep(s3, env)
        s5 == SuccessStep(s4)
    IN FinallyReturn(Handlers(s5, FALSE))

clone_snippet(args, env) ==
    LET snippet == args[1]
        target_path == args[2]
        s1 == Unpack(InitRun(SnippetResult),
                     [snippet_title |-> snippet.name, snippet_url |-> snippet.web_url,
                      snippet_id |-> snippet.id, snippet_path |-> target_path], env)
        s2 == CloneStep(s1, ReplaceDash(snippet.web_url), target_path, env)
        s3 == SidecarStep(s2, SidecarPath(target_path, "snippet", snippet.id), env)
        s4 == IF ~Running(s3) \/ ~s3.repository THEN s3
              ELSE Set(s3, "success", s3.result["is_cloned"])
    IN FinallyReturn(Handlers(s4, TRUE))

CloneKinds == {"projects", "wikis", "snippets"}

\* The worker function pool.map is given in the clone phase of a kind.
WorkerFunction(kind, args, env) ==
    CASE kind = "projects" -> clone_project(args, env)
      [] kind = "wikis" -> clone_wiki(args, env)
      [] OTHER -> clone_snippet(args, env)


(***************************************************************************)
(* gitlab/api.py: discovery.  The forge is a record:                       *)
(*   parent   the group each group is listed under as a subgroup (0: none) *)
(*   owner    the group each project is listed in (0: the user's own)      *)
(*   gone     the calls that raise: <<"group", g>> and <<"project", p>>    *)
(*            (get raises GitlabGetError), <<"gwiki", g>>, <<"pwiki", p>>  *)
(*            and <<"issues", p>> (list raises GitlabListError)            *)
(*   pages    the wikis ("G", g) and ("P", p) that have a page             *)
(*   nowikis  the objects without a wikis attribute                        *)
(*   issues   the number of issues of each project                         *)
(*   snippets the number of snippets the session sees                      *)
(* A dict is the sequence of its keys in insertion order: an object is     *)
(* identified by its key.                                                  *)
(***************************************************************************)
Groups == 1..MaxGroups
Projects == 1..MaxGroups

\* The recursion depth at which Python raises RecursionError: above the depth
\* of every tree over Groups.
RecursionLimit == MaxGroups + 1

RECURSIVE Sorted(_)
Sorted(S) ==
    IF S = {} THEN <<>>
    ELSE LET m == CHOOSE x \in S : \A y \in S : x <= y IN <<m>> \o Sorted(S \ {m})

\* A variant that appends as a list does, whether or not the key is there.
DictUpdateAppend(keys, key) == Append(keys, key)

\* dict.update({key: value})
DictUpdate(keys, key) == IF key \in SeqToSet(keys) THEN keys ELSE Append(keys, key)

RECURSIVE DictUpdateAll(_, _)
DictUpdateAll(keys, new) ==
    IF new = <<>> THEN keys ELSE DictUpdateAll(DictUpdate(keys, Head(new)), Tail(new))

\* group.subgroups.list(all=True) and group.projects.list(all=True)
Subgroups(forge, g) == Sorted({h \in Groups : forge.parent[h] = g})
GroupProjects(forge, g) == Sorted({p \in Projects : forge.owner[p] = g})

\* The state of a discovery: the dicts, the groups _recurse_group was called
\* for (calls), the loop variable project (0: unbound) and the exception raised.
InitDiscovery ==
    [groups |-> <<>>, projects |-> <<>>, wikis |-> <<>>, issues |-> <<>>, snippets |-> <<>>,
     calls |-> <<>>, project |-> 0, exc |-> "none"]

RECURSIVE _recurse_group(_, _, _, _)
RECURSIVE RecurseSubgroups(_, _, _, _, _)

\* A variant that records the subgroups without descending into them.
RecurseSubgroupsShallow(forge, subgroups, i, st, depth) ==
    IF st.exc # "none" THEN st
    ELSE [st EXCEPT !.groups = DictUpdateAll(@, subgroups)]

\* for subgroup in subgroups: subgroup = api.groups.get(subgroup.id); recurse
RecurseSubgroups(forge, subgroups, i, st, depth) ==
    IF i > Len(subgroups) \/ st.exc # "none" THEN st
    ELSE IF <<"group", subgroups[i]>> \in forge.gone THEN [st EXCEPT !.exc = "GitlabGetError"]
    ELSE RecurseSubgroups(forge, subgroups, i + 1,
                          _recurse_group(forge, subgroups[i], st, depth + 1), depth)

_recurse_group(forge, group, st, depth) ==
    IF st.exc # "none" THEN st
    ELSE IF depth > RecursionLimit THEN [st EXCEPT !.exc = "RecursionError"]
    ELSE LET s1 == [st EXCEPT !.calls = Append(@, group), !.groups = DictUpdate(@, group)]
             s2 == RecurseSubgroups(forge, Subgroups(forge, group), 1, s1, depth)
         IN IF s2.exc # "none" THEN s2
            ELSE [s2 EXCEPT !.projects = DictUpdateAll(@, GroupProjects(forge, group))]

\* for gid in gitlab_group_ids: group = api.groups.get(gid); _recurse_group(...)
RECURSIVE GroupIdsLoop(_, _, _)
GroupIdsLoop(forge, gids, st) ==
    IF gids = <<>> \/ st.exc # "none" THEN st
    ELSE IF <<"group", Head(gids)>> \in forge.gone THEN [st EXCEPT !.exc = "GitlabGetError"]
    ELSE GroupIdsLoop(forge, Tail(gids), _recurse_group(forge, Head(gids), st, 1))

\* for pid in gitlab_project_ids: try: project = api.projects.get(pid)
\* except GitlabGetError: log; if project: gitlab_projects[project.id] = project
RECURSIVE ProjectIdsLoop(_, _, _)
ProjectIdsLoop(forge, pids, st) ==
    IF pids = <<>> \/ st.exc # "none" THEN st
    ELSE LET s1 == IF <<"project", Head(pids)>> \in forge.gone THEN st
                   ELSE [st EXCEPT !.project = Head(pids)]
         IN IF s1.project = 0 THEN [s1 EXCEPT !.exc = "UnboundLocalError"]
            ELSE ProjectIdsLoop(forge, Tail(pids),
                                [s1 EXCEPT !.projects = DictUpdate(@, s1.project)])

\* personal_projects = api.users.get(api.user.id).projects.list(all=True)
PersonalProjects(forge, st) ==
    IF st.exc # "none" THEN st
    ELSE LET mine == GroupProjects(forge, 0) IN
         [st EXCEPT !.projects = DictUpdateAll(@, mine)]

\* A variant that keys the wiki map by the bare ID.
RECURSIVE WikiProbesById(_, _, _, _, _)
WikiProbesById(forge, ids, letter, call, st) ==
    IF ids = <<>> THEN st
    ELSE LET tag == <<letter, Head(ids)>>
             found == /\ tag \notin forge.nowikis
                      /\ <<call, Head(ids)>> \notin forge.gone
                      /\ tag \in forge.pages
         IN WikiProbesById(forge, Tail(ids), letter, call,
                           IF found THEN [st EXCEPT !.wikis = DictUpdate(@, <<"G", Head(ids)>>)] ELSE st)

\* try: if hasattr(obj, "wikis") and (pages := obj.wikis.list(all=True)):
\* gitlab_wikis.update(...) except GitlabListError: log
RECURSIVE WikiProbes(_, _, _, _, _)
WikiProbes(forge, ids, letter, call, st) ==
    IF ids = <<>> THEN st
    ELSE LET tag == <<letter, Head(ids)>>
             found == /\ tag \notin forge.nowikis
                      /\ <<call, Head(ids)>> \notin forge.gone
                      /\ tag \in forge.pages
         IN WikiProbes(forge, Tail(ids), letter, call,
                       IF found THEN [st EXCEPT !.wikis = DictUpdate(@, tag)] ELSE st)

Wikis(forge, st) ==
    IF st.exc # "none" THEN st
    ELSE WikiProbes(forge, st.projects, "P", "pwiki",
                    WikiProbes(forge, st.groups, "G", "gwiki", st))

\* for pid in gitlab_projects.keys(): issues = api.projects.get(pid).issues.list(all=True)
RECURSIVE Issues(_, _, _)
Issues(forge, pids, st) ==
    IF pids = <<>> \/ st.exc # "none" THEN st
    ELSE IF <<"project", Head(pids)>> \in forge.gone THEN [st EXCEPT !.exc = "GitlabGetError"]
    ELSE IF <<"issues", Head(pids)>> \in forge.gone THEN [st EXCEPT !.exc = "GitlabListError"]
    ELSE Issues(forge, Tail(pids),
                [st EXCEPT !.issues =
                    DictUpdateAll(@, [iid \in 1..forge.issues[Head(pids)] |-> <<Head(pids), iid>>])])

\* snippets = api.snippets.list(all=True)
Snippets(forge, st) ==
    IF st.exc # "none" THEN st
    ELSE [st EXCEPT !.snippets = DictUpdateAll(@, [i \in 1..forge.snippets |-> i])]

get_gitlab_items(forge, cfg) ==
    LET s1 == GroupIdsLoop(forge, cfg.gitlab_group_ids, InitDiscovery)
        s2 == ProjectIdsLoop(forge, cfg.gitlab_project_ids, s1)
        s3 == IF cfg.include_personal_projects THEN PersonalProjects(forge, s2) ELSE s2
        s4 == IF cfg.include_wikis THEN Wikis(forge, s3) ELSE s3
        s5 == IF cfg.include_issues THEN Issues(forge, s4.projects, s4) ELSE s4
    IN IF cfg.include_snippets THEN Snippets(forge, s5) ELSE s5

(***************************************************************************)
(* The objects of the forge, as the routine reads them.                    *)
(***************************************************************************)
RECURSIVE GroupPath(_, _, _)
GroupPath(forge, g, fuel) ==
    IF fuel = 0 \/ forge.parent[g] = 0 THEN <<"g" \o ToString(g)>>
    ELSE GroupPath(forge, forge.parent[g], fuel - 1) \o <<"g" \o ToString(g)>>

GroupObject(forge, g) ==
    LET path == GroupPath(forge, g, MaxGroups) IN
    [id |-> g, name |-> <<"group", ToString(g)>>, web_url |-> <<"https://forge">> \o path,
     path_with_namespace |-> path]

ProjectObject(forge, p) ==
    LET ns == IF forge.owner[p] = 0 THEN <<"user">> ELSE GroupPath(forge, forge.owner[p], MaxGroups)
        path == ns \o <<forge.path[p]>>
    IN [id |-> p, name |-> <<"project", ToString(p)>>, web_url |-> <<"https://forge">> \o path,
        path_with_namespace |-> path]

SnippetObject(i) ==
    [id |-> i, name |-> <<"snippet", ToString(i)>>,
     web_url |-> <<"https://forge", "-", "snippets", ToString(i)>>,
     path_with_namespace |-> <<"user">>]

WikiObject(forge, tag) ==
    IF tag[1] = "G" THEN GroupObject(forge, tag[2]) ELSE ProjectObject(forge, tag[2])

\* The dict of a kind handed to its clone phase, as the sequence of its values.
Items(forge, d, kind) ==
    CASE kind = "projects" -> [i \in 1..Len(d.projects) |-> ProjectObject(forge, d.projects[i])]
      [] kind = "wikis" -> [i \in 1..Len(d.wikis) |-> WikiObject(forge, d.wikis[i])]
      [] OTHER -> [i \in 1..Len(d.snippets) |-> SnippetObject(d.snippets[i])]

(***************************************************************************)
(* git/clone.py: the clone phases clone_projects, clone_wikis and          *)
(* clone_snippets.                                                         *)
(***************************************************************************)
BackupDir == <<"foxysafe.backup">>

\* Path(...).resolve(): "x/.." is dropped.
RECURSIVE Resolve(_)
Resolve(path) ==
    IF \E i \in 2..Len(path) : path[i] = ".."
    THEN LET i == CHOOSE j \in 2..Len(path) : path[j] = ".." /\ \A k \in 2..(j - 1) : path[k] # ".."
         IN Resolve(SubSeq(path, 1, i - 2) \o SubSeq(path, i + 1, Len(path)))
    ELSE path

\* f"{obj.path_with_namespace}.wiki"
WikiSuffix(path) == [path EXCEPT ![Len(path)] = @ \o ".wiki"]

TargetPath(kind, obj) ==
    CASE kind = "projects" -> Resolve(BackupDir \o obj.path_with_namespace)
      [] kind = "wikis" -> Resolve(BackupDir \o WikiSuffix(obj.path_with_namespace))
      [] OTHER -> Resolve(BackupDir \o <<"snippets", ToString(obj.id)>>)

\* mapped_args: one (object, target path) per value of the dict.
MappedArgs(kind, items) == [i \in 1..Len(items) |-> <<items[i], TargetPath(kind, items[i])>>]

\* Pool(processes=min(1, os.cpu_count() - 2))
PoolProcesses(cpu_count) == Min(1, cpu_count - 2)

\* open(backup_dir / "results.json", "w"); clone_snippets rebinds backup_dir.
ResultsPath(kind) ==
    IF kind = "snippets" THEN BackupDir \o <<"snippets", "results.json">>
    ELSE BackupDir \o <<"results.json">>

\* A variant that writes the results last first, as a list filled in the
\* order of completion could be.
ResultsToWriteReversed(results) ==
    [i \in 1..Len(results) |-> results[Len(results) + 1 - i][1]]

\* A variant that writes the successful results only.
ResultsToWriteSuccessful(results) ==
    LET all == [i \in 1..Len(results) |-> results[i][1]]
    IN SelectSeq(all, LAMBDA r : r["success"])

\* json.dump(results, f)
ResultsToWrite(results) == [i \in 1..Len(results) |-> results[i][1]]

\* A file is written: created, or its content replaced.
WriteFile(files, path, content) ==
    [q \in DOMAIN files \cup {path} |-> IF q = path THEN content ELSE files[q]]

\* The files a run of a worker function leaves: the clone and the sidecar.
RECURSIVE FileEffects(_, _, _)
FileEffects(files, ops, env) ==
    IF ops = <<>> THEN files
    ELSE LET op == Head(ops)
             next == CASE op[1] = "clone" /\ env.clone = "ok" ->
                            WriteFile(files, op[3], <<"repository">>)
                       [] op[1] = "sidecar" /\ env.sidecar = "ok" ->
                            WriteFile(files, Resolve(op[2]), <<"attributes">>)
                       [] OTHER -> files
         IN FileEffects(next, Tail(ops), env)

\* The outcomes drawn for the items of a clone phase.
PhaseEnvs(kind) ==
    {OkEnv, [OkEnv EXCEPT !.clone = "exc"]}
    \cup (IF kind = "wikis" THEN {[OkEnv EXCEPT !.branchall = "exc"]}
          ELSE {[OkEnv EXCEPT !.sidecar = "exc"]})
    \cup (IF kind = "snippets" THEN {}
          ELSE {[OkEnv EXCEPT !.submodules = <<"sub1">>, !.lines = BranchAllOutput(2)]})

\* The operations of a run a KeyboardInterrupt can be raised in.
InterruptedEnvs(kind, env) ==
    {[OkEnv EXCEPT !.clone = "kbi"]}
    \cup (IF env.clone # "ok" THEN {}
          ELSE IF kind = "wikis" THEN {[env EXCEPT !.branchall = "kbi"]}
          ELSE {[env EXCEPT !.sidecar = "kbi"]})

(***************************************************************************)
(* gitlab/download.py: find_matches.  A string is the sequence of its      *)
(* tokens: the literal "uploads/", runs of characters of the class         *)
(* [a-zA-Z0-9/_.-] ("x.png", "-/", "-x", "text") and runs of other         *)
(* characters (" ", "!").  A JSON-like value is a record [t, v]: t is its  *)
(* type, v its string, its items, or its (key, value) pairs in insertion   *)
(* order.                                                                  *)
(***************************************************************************)
MaxNodes == 4

Upload == "uploads/"
ClassTokens == {Upload, "x.png", "a.png", "b.png", "-/", "-x", "abc/", "file.png", "text",
                "-", "wikis/"}

Str(s) == [t |-> "str", v |-> s]
Null == [t |-> "null", v |-> <<>>]
Num == [t |-> "num", v |-> <<"5">>]
Bool == [t |-> "bool", v |-> <<"true">>]
List(items) == [t |-> "list", v |-> items]
Dict(values) ==
    [t |-> "dict", v |-> [i \in 1..Len(values) |-> <<"k" \o ToString(i), values[i]>>]]

\* The values of exactly n nodes over the leaves, and the sequences of values
\* of k nodes in all.
RECURSIVE Trees(_, _)
RECURSIVE Forests(_, _)
Trees(leaves, n) ==
    IF n = 1 THEN leaves \cup {List(<<>>), Dict(<<>>)}
    ELSE {List(f) : f \in Forests(leaves, n - 1)} \cup {Dict(f) : f \in Forests(leaves, n - 1)}

Forests(leaves, k) ==
    IF k = 0 THEN {<<>>}
    ELSE UNION {{<<x>> \o f : x \in Trees(leaves, j), f \in Forests(leaves, k - j)} : j \in 1..k}

JsonValues(leaves) == UNION {Trees(leaves, n) : n \in 1..MaxNodes}

\* Texts with one match, with two matches in running text, with none.
OneUpload == <<Upload, "x.png">>
TwoUploads == <<"see ", Upload, "a.png", " ", Upload, "-/", "b.png", "!">>
NoUpload == <<"text", " ", Upload>>
StringLeaves == {Str(OneUpload), Str(TwoUploads), Str(NoUpload)}
MixedLeaves == {Str(OneUpload), Null, Num, Bool}

\* FILE_UPLOAD_PATTERN = r"uploads\/[a-zA-Z0-9\/_.-]+": the end of the longest
\* run of class characters that starts at token i.
RECURSIVE ClassRunEnd(_, _)
ClassRunEnd(s, i) ==
    IF i <= Len(s) /\ s[i] \in ClassTokens THEN ClassRunEnd(s, i + 1) ELSE i - 1

\* re.findall(pattern, s): the matches from left to right, none overlapping.
RECURSIVE FindAll(_, _)
FindAll(s, i) ==
    IF i > Len(s) THEN <<>>
    ELSE IF s[i] = Upload /\ ClassRunEnd(s, i + 1) > i
         THEN <<SubSeq(s, i, ClassRunEnd(s, i + 1))>> \o FindAll(s, ClassRunEnd(s, i + 1) + 1)
         ELSE FindAll(s, i + 1)

\* @beartype on obj: None | str | list | dict[str, Any]
ObjHintOk(obj) == obj.t \in {"null", "str", "list", "dict"}

\* A variant with a mutable default (found=[]): the list an earlier call
\* returned.
NewFoundShared(earlier) == earlier

\* if found is None: found = []
NewFound(earlier) == <<>>

\* find_matches(obj, pattern, found); st is the list found and the exception
\* raised.
RECURSIVE find_matches(_, _)
RECURSIVE FindInItems(_, _, _)
FindInItems(items, i, st) ==
    IF i > Len(items) \/ st.exc # "none" THEN st
    ELSE FindInItems(items, i + 1, find_matches(items[i], st))

find_matches(obj, st) ==
    IF st.exc # "none" THEN st
    ELSE IF ~ObjHintOk(obj) THEN [st EXCEPT !.exc = "BeartypeCallHintParamViolation"]
    ELSE CASE obj.t = "dict" -> FindInItems([i \in 1..Len(obj.v) |-> obj.v[i][2]], 1, st)
           [] obj.t = "list" -> FindInItems(obj.v, 1, st)
           [] obj.t = "str" -> [st EXCEPT !.found = @ \o FindAll(obj.v, 1)]
           [] OTHER -> st

\* A call find_matches(obj, pattern) from outside, after a call that returned
\* the list earlier.
FindMatchesCall(obj, earlier) == find_matches(obj, [found |-> NewFound(earlier), exc |-> "none"])

(***************************************************************************)
(* gitlab/download.py: get_wiki_attachment_urls and                        *)
(* get_issue_attachment_urls.  A URL is the sequence of the segments of a  *)
(* web_url followed by tokens.                                             *)
(***************************************************************************)
MaxPages == 2

\* "uploads/-" in attachment_uri: the literal with a dash right after it.
DashTokens == {"-/", "-x", "-"}
HasUploadsDash(uri) == \E i \in 1..(Len(uri) - 1) : uri[i] = Upload /\ uri[i + 1] \in DashTokens

\* str.replace(old, new): every occurrence from left to right, none overlapping.
RECURSIVE Replace(_, _, _)
Replace(s, old, new) ==
    IF Len(s) < Len(old) THEN s
    ELSE IF SubSeq(s, 1, Len(old)) = old
         THEN new \o Replace(SubSeq(s, Len(old) + 1, Len(s)), old, new)
         ELSE <<Head(s)>> \o Replace(Tail(s), old, new)

\* A variant that leaves the match as it is.
WikiRewriteNone(uri) == uri

\* if "uploads/-" in uri: uri = uri.replace("uploads/-/", "-/wikis/uploads/")
WikiRewrite(uri) ==
    IF HasUploadsDash(uri) THEN Replace(uri, <<Upload, "-/">>, <<"-/", "wikis/", Upload>>) ELSE uri

\* if "uploads/-" in uri: uri = uri.replace("uploads/-/", "uploads/")
IssueRewrite(uri) ==
    IF HasUploadsDash(uri) THEN Replace(uri, <<Upload, "-/">>, <<Upload>>) ELSE uri

\* for page in pages: matches += find_matches(content, pattern); earlier is the
\* list the call before returned.
RECURSIVE PageMatches(_, _, _, _)
PageMatches(contents, i, matches, earlier) ==
    IF i > Len(contents) THEN matches
    ELSE LET found == FindMatchesCall(Str(contents[i]), earlier).found
         IN PageMatches(contents, i + 1, matches \o found, found)

\* for attachment_uri in matches: if not attachment_uri: continue; ...
\* attachment_urls.append(f"{url}/-/wikis/{attachment_uri}")
RECURSIVE WikiUrls(_, _)
WikiUrls(matches, web_url) ==
    IF matches = <<>> THEN <<>>
    ELSE IF Head(matches) = <<>> THEN WikiUrls(Tail(matches), web_url)
    ELSE <<web_url \o <<"/-/wikis/">> \o WikiRewrite(Head(matches))>>
            \o WikiUrls(Tail(matches), web_url)

\* obj is the web_url of the group or project and the contents of its pages.
get_wiki_attachment_urls(obj) == WikiUrls(PageMatches(obj.contents, 1, <<>>, <<>>), obj.web_url)

\* A variant that keeps the whole URL.
UrlBaseWhole(url) == url

\* url.split("/-/issues/")[0]
UrlBase(url) ==
    IF \E i \in 1..Len(url) : url[i] = "/-/issues/"
    THEN SubSeq(url, 1, (CHOOSE i \in 1..Len(url) :
                            url[i] = "/-/issues/" /\ \A j \in 1..(i - 1) : url[j] # "/-/issues/") - 1)
    ELSE url

\* attachment_urls.append(f"{url}/{attachment_uri}")
IssueUrls(matches, url) == [i \in 1..Len(matches) |-> url \o <<"/">> \o IssueRewrite(matches[i])]

\* obj is an issue (description, web_url) or a note (body); web_url is the
\* parameter of that name.
get_issue_attachment_urls(obj, is_note, web_url) ==
    LET matches == IF is_note THEN FindMatchesCall(obj.body, <<>>).found
                   ELSE FindMatchesCall(obj.description, <<>>).found
    IN IssueUrls(matches, IF ~is_note THEN UrlBase(obj.web_url) ELSE UrlBase(web_url))

\* The texts of wiki pages, issues and notes: an upload under the namespace
\* marker, one without, one with a dash but no marker before one with the
\* marker, one with the marker twice in one match, no upload at all.
MarkerUpload == <<"see ", Upload, "-/", "abc/", "file.png", "!">>
DashUpload == <<Upload, "-x", " ", Upload, "-/", "a.png">>
TwiceMarker == <<Upload, "-/", Upload, "-/", "b.png">>
Texts == {MarkerUpload, OneUpload, DashUpload, TwiceMarker, NoUpload}
Contents == UNION {[1..n -> Texts] : n \in 0..MaxPages}

\* issue.web_url, and the issue and note objects backup_issue is called with.
IssueUrl(f, p, iid) == ProjectObject(f, p).web_url \o <<"/-/issues/", ToString(iid)>>
IssueObject(f, p, iid, description) ==
    [iid |-> iid, project_id |-> p, web_url |-> IssueUrl(f, p, iid), description |-> description]
NoteObject(id, iid, body) == [id |-> id, issue_iid |-> iid, body |-> Str(body)]

(***************************************************************************)
(* State.                                                                  *)
(*   run       one run of a worker function on its own: the kind, the      *)
(*             object, the outcomes of the external operations and, once   *)
(*             the function returned, <<its final state>>                  *)
(*   forge     the forge                                                   *)
(*   cfg       the configuration                                           *)
(*   cpu       os.cpu_count()                                              *)
(*   rpc       the position of the process in main and the backup routine  *)
(*   disc      what discovery returned                                     *)
(*   pool      the worker pool of the clone phase in progress              *)
(*   idx       the position of the loop over the items of a backup phase   *)
(*   disk      the files written, by path                                  *)
(*   exitcode  the exit code of the process, -1 while it runs              *)
(*   hist      what happened: the kinds whose results.json was written     *)
(*             (written) and the interrupts delivered (signals)            *)
(***************************************************************************)
VARIABLES run, forge, cfg, cpu, rpc, disc, pool, idx, disk, exitcode, hist

vars == <<run, forge, cfg, cpu, rpc, disc, pool, idx, disk, exitcode, hist>>

MaxCpu == 4
MaxInterrupts == 1

Object(kind, id) ==
    [id |-> id, name |-> <<kind, ToString(id)>>,
     web_url |-> <<"https://forge", "-", kind, ToString(id)>>,
     path_with_namespace |-> <<kind, ToString(id)>>]

NoRun == [kind |-> "none", id |-> 0, env |-> OkEnv, out |-> <<>>]
NoPool == [kind |-> "none", size |-> 0, args |-> <<>>, queue |-> 0, busy |-> <<>>,
           envs |-> <<>>, results |-> <<>>]
NoFiles == [q \in {} |-> <<>>]
NoHist == [written |-> {}, signals |-> <<>>, attempts |-> <<>>]

(***************************************************************************)
(* The forges and configurations the runs start from.                      *)
(***************************************************************************)
Config(gids, pids, personal, wikis, issues, snippets) ==
    [gitlab_group_ids |-> gids, gitlab_project_ids |-> pids,
     include_personal_projects |-> personal, include_wikis |-> wikis,
     include_issues |-> issues, include_snippets |-> snippets]

\* A chain of groups, group g listed under group g - 1, each with one project;
\* the last group and its project have a wiki page, the project two issues
\* of two notes each.
BaseForge ==
    [parent |-> [g \in Groups |-> g - 1], owner |-> [p \in Projects |-> p], gone |-> {},
     pages |-> {<<"G", MaxGroups>>, <<"P", MaxGroups>>}, nowikis |-> {},
     issues |-> [p \in Projects |-> IF p = MaxGroups THEN 2 ELSE 0], notes |-> 2,
     snippets |-> 1, path |-> [p \in Projects |-> "p" \o ToString(p)]]

\* Project 2 lies in the group of project 1 and its path is "project_1.json".
NamedForge == [BaseForge EXCEPT !.owner[2] = 1, !.path[2] = "project_1.json"]

\* The runs of the whole routine: the projects, wikis and snippets of the last
\* two groups; the projects, wikis and issues of the last group; one project
\* by its ID; two projects of one group by their IDs; nothing at all; a group
\* that cannot be fetched.
RoutineScenarios ==
    {<<BaseForge, Config(<<MaxGroups - 1>>, <<>>, TRUE, TRUE, FALSE, TRUE)>>,
     <<BaseForge, Config(<<MaxGroups>>, <<>>, FALSE, TRUE, TRUE, FALSE)>>,
     <<BaseForge, Config(<<>>, <<1>>, FALSE, FALSE, FALSE, FALSE)>>,
     <<NamedForge, Config(<<>>, <<1, 2>>, FALSE, FALSE, FALSE, FALSE)>>,
     <<BaseForge, Config(<<>>, <<>>, FALSE, FALSE, FALSE, FALSE)>>,
     <<[BaseForge EXCEPT !.gone = {<<"group", 1>>}], Config(<<1>>, <<>>, FALSE, FALSE, FALSE, FALSE)>>}

Init ==
    /\ run = NoRun
    /\ \E sc \in RoutineScenarios : forge = sc[1] /\ cfg = sc[2]
    /\ cpu \in 1..MaxCpu
    /\ rpc = "login"
    /\ disc = InitDiscovery
    /\ pool = NoPool
    /\ idx = 0
    /\ disk = NoFiles
    /\ exitcode = -1
    /\ hist = NoHist

(***************************************************************************)
(* entrypoints.py and gitlab/backups.py: main and the backup routine.      *)
(***************************************************************************)
\* exit(code), from main's handlers or at its end.
Exit(code) ==
    /\ rpc' = "exit"
    /\ exitcode' = code
    /\ pool' = NoPool

\* api = gitlab_login(...): api.auth() raises when the token is invalid or the
\* server unreachable; main's except Exception exits with 1.
Login ==
    /\ rpc = "login"
    /\ \E ok \in BOOLEAN :
          IF ok THEN rpc' = "discover" /\ UNCHANGED <<exitcode, pool>>
          ELSE Exit(1)
    /\ UNCHANGED <<run, forge, cfg, cpu, disc, idx, disk, hist>>

\* groups, projects, wikis, issues, snippets = get_gitlab_items(...)
Discover ==
    /\ rpc = "discover"
    /\ disc' = get_gitlab_items(forge, cfg)
    /\ IF disc'.exc = "none" THEN rpc' = "projects" /\ UNCHANGED <<exitcode, pool>>
       ELSE Exit(1)
    /\ UNCHANGED <<run, forge, cfg, cpu, idx, disk, hist>>

\* The phase after the clone phase of a kind, and after it was skipped.
AfterClone(kind) ==
    CASE kind = "projects" -> "wikis"
      [] kind = "wikis" -> "wiki_attachments"
      [] OTHER -> "snippet_attachments"

AfterSkipped(kind) ==
    CASE kind = "projects" -> "wikis"
      [] kind = "wikis" -> "issues"
      [] OTHER -> "return"

\* if <dict>: clone_<kind>(<dict>, backup_dir), up to pool.map: the arguments
\* are mapped and the pool is created, which raises ValueError for less than
\* one process.
StartClonePhase(kind) ==
    /\ rpc = kind
    /\ pool.kind = "none"
    /\ LET items == Items(forge, disc, kind)
           processes == PoolProcesses(cpu)
       IN IF items = <<>>
          THEN rpc' = AfterSkipped(kind) /\ UNCHANGED <<exitcode, pool>>
          ELSE IF processes < 1 THEN Exit(1)
          ELSE /\ pool' = [kind |-> kind, size |-> processes, args |-> MappedArgs(kind, items),
                           queue |-> 1, busy |-> [w \in 1..processes |-> 0],
                           envs |-> [i \in 1..Len(items) |-> <<>>],
                           results |-> [i \in 1..Len(items) |-> <<>>]]
               /\ UNCHANGED <<rpc, exitcode>>
    /\ UNCHANGED <<run, forge, cfg, cpu, disc, idx, disk, hist>>

\* An idle worker takes the next task of pool.map and starts the worker
\* function on it.
WorkerTake(w) ==
    /\ pool.kind # "none"
    /\ w \in 1..pool.size
    /\ pool.busy[w] = 0
    /\ pool.queue <= Len(pool.args)
    /\ \E env \in PhaseEnvs(pool.kind) :
          pool' = [pool EXCEPT !.busy[w] = pool.queue, !.envs[pool.queue] = <<env>>,
                               !.queue = @ + 1]
    /\ UNCHANGED <<run, forge, cfg, cpu, rpc, disc, idx, disk, exitcode, hist>>

\* The worker function returns: the pool stores what it returned at the index
\* of the task.  An exception it raised is stored in its place, and pool.map
\* raises it again; a worker a KeyboardInterrupt escapes from dies and its task
\* is never completed.
TaskResult(out) ==
    CASE out.exc = "none" -> <<out.result>>
      [] out.exc = "exc" -> <<[raised |-> TRUE]>>
      [] OTHER -> <<>>

WorkerReturn(w) ==
    /\ pool.kind # "none"
    /\ w \in 1..pool.size
    /\ pool.busy[w] # 0
    /\ LET i == pool.busy[w]
           env == pool.envs[i][1]
           out == WorkerFunction(pool.kind, pool.args[i], env)
       IN /\ pool' = [pool EXCEPT !.busy[w] = 0, !.results[i] = TaskResult(out)]
          /\ disk' = FileEffects(disk, out.ops, env)
    /\ UNCHANGED <<run, forge, cfg, cpu, rpc, disc, idx, exitcode, hist>>

\* pool.map returns once every task has its result.
MapReady(p) == \A i \in 1..Len(p.results) : p.results[i] # <<>>

\* A variant that submits the tasks and goes on without waiting for them
\* (map_async without get), and so without results to write.
FinishClonePhaseNoWait(kind) ==
    /\ rpc = kind
    /\ pool.kind = kind
    /\ rpc' = AfterClone(kind)
    /\ pool' = NoPool
    /\ UNCHANGED <<run, forge, cfg, cpu, disc, idx, disk, exitcode, hist>>

\* The rest of clone_<kind>: pool.map returns the results in the order of the
\* arguments (or raises what a task raised), the pool is left, the summary is
\* logged and results.json is written.
FinishClonePhase(kind) ==
    /\ rpc = kind
    /\ pool.kind = kind
    /\ MapReady(pool)
    /\ IF \E i \in 1..Len(pool.results) : "raised" \in DOMAIN pool.results[i][1]
       THEN Exit(1) /\ UNCHANGED <<disk, hist>>
       ELSE /\ disk' = WriteFile(disk, ResultsPath(kind), ResultsToWrite(pool.results))
            /\ hist' = [hist EXCEPT !.written = @ \cup {kind}]
            /\ rpc' = AfterClone(kind)
            /\ pool' = NoPool
            /\ UNCHANGED exitcode
    /\ UNCHANGED <<run, forge, cfg, cpu, disc, idx>>

\* SIGINT.  Sent to a worker process, it raises KeyboardInterrupt in the worker
\* function, in the operation that runs.  Sent to the process group (Ctrl-C),
\* it also raises KeyboardInterrupt in the parent, which waits in pool.map:
\* the with statement terminates the pool and main's handler exits with 0.
Interrupt ==
    /\ rpc \in CloneKinds
    /\ pool.kind # "none"
    /\ Len(hist.signals) < MaxInterrupts
    /\ \E w \in 1..pool.size, target \in {"worker", "group"} :
          /\ pool.busy[w] # 0
          /\ LET i == pool.busy[w] IN
             /\ hist' = [hist EXCEPT !.signals =
                            Append(@, [kind |-> pool.kind, item |-> i, target |-> target])]
             /\ IF target = "worker"
                THEN /\ \E env \in InterruptedEnvs(pool.kind, pool.envs[i][1]) :
                           pool' = [pool EXCEPT !.envs[i] = <<env>>]
                     /\ UNCHANGED <<rpc, exitcode>>
                ELSE Exit(0)
    /\ UNCHANGED <<run, forge, cfg, cpu, disc, idx, disk>>

\* The outcome of the backup of an item, and of the listing of the notes of
\* an issue, is recorded in hist.attempts.
Attempt(loop, item, ok) == [loop |-> loop, item |-> item, ok |-> ok]

\* for obj in wikis.values(): try: backup_wiki_attachements(...) except Exception
WikiAttachments ==
    /\ rpc = "wiki_attachments"
    /\ IF idx < Len(disc.wikis)
       THEN /\ idx' = idx + 1
            /\ \E ok \in BOOLEAN :
                  /\ disk' = IF ok
                             THEN WriteFile(disk,
                                      Resolve(BackupDir \o WikiObject(forge, disc.wikis[idx + 1]).path_with_namespace
                                              \o <<".wiki", "attachements">>), <<"downloads">>)
                             ELSE disk
                  /\ hist' = [hist EXCEPT !.attempts = Append(@, Attempt("wikis", disc.wikis[idx + 1], ok))]
            /\ UNCHANGED rpc
       ELSE rpc' = "issues" /\ idx' = 0 /\ UNCHANGED <<disk, hist>>
    /\ UNCHANGED <<run, forge, cfg, cpu, disc, pool, exitcode>>

\* download_dir, json_path and md_path of backup_issue for an issue and a note
IssueDir(f, issue) ==
    Resolve(BackupDir \o ProjectObject(f, issue[1]).path_with_namespace
            \o <<"issues", ToString(issue[2])>>)
NoteDir(f, issue, note) == IssueDir(f, issue) \o <<"notes", ToString(note)>>

\* backup_issue up to the attachments: the attributes and the text are written.
IssueFiles(files, dir, id) ==
    WriteFile(WriteFile(files, dir \o <<ToString(id) \o ".json">>, <<"attributes">>),
              dir \o <<ToString(id) \o ".md">>, <<"text">>)

\* A variant in which the failure of a note ends the loop over the notes.
RECURSIVE BackupNotesStop(_, _, _, _)
BackupNotesStop(st, issue, k, oks) ==
    IF k > Len(oks) THEN st
    ELSE IF ~oks[k] THEN [st EXCEPT !.attempts = Append(@, Attempt("notes", <<issue, k>>, FALSE))]
    ELSE BackupNotesStop([files |-> IssueFiles(st.files, NoteDir(forge, issue, k), k),
                          attempts |-> Append(st.attempts, Attempt("notes", <<issue, k>>, TRUE))],
                         issue, k + 1, oks)

\* for note in issue.notes.list(all=True): try: backup_issue(config, note, ...,
\* True, web_url=issue.web_url) except Exception
RECURSIVE BackupNotes(_, _, _, _)
BackupNotes(st, issue, k, oks) ==
    IF k > Len(oks) THEN st
    ELSE BackupNotes([files |-> IF oks[k] THEN IssueFiles(st.files, NoteDir(forge, issue, k), k)
                                ELSE st.files,
                      attempts |-> Append(st.attempts, Attempt("notes", <<issue, k>>, oks[k]))],
                     issue, k + 1, oks)

\* for issue in issues.values(): try: backup_issue(...); for note in
\* issue.notes.list(all=True): ... except Exception
BackupIssues ==
    /\ rpc = "issues"
    /\ IF idx < Len(disc.issues)
       THEN /\ idx' = idx + 1
            /\ \E ok \in BOOLEAN, listed \in BOOLEAN, oks \in [1..forge.notes -> BOOLEAN] :
                  LET issue == disc.issues[idx + 1]
                      s1 == [files |-> IF ok THEN IssueFiles(disk, IssueDir(forge, issue), issue[2])
                                       ELSE disk,
                             attempts |-> Append(hist.attempts, Attempt("issues", issue, ok))]
                      s2 == IF ok
                            THEN [s1 EXCEPT !.attempts = Append(@, Attempt("listing", issue, listed))]
                            ELSE s1
                      s3 == IF ok /\ listed THEN BackupNotes(s2, issue, 1, oks) ELSE s2
                  IN /\ disk' = s3.files
                     /\ hist' = [hist EXCEPT !.attempts = s3.attempts]
            /\ UNCHANGED rpc
       ELSE rpc' = "snippets" /\ idx' = 0 /\ UNCHANGED <<disk, hist>>
    /\ UNCHANGED <<run, forge, cfg, cpu, disc, pool, exitcode>>

\* A variant without the try: a failure leaves the routine.
SnippetAttachmentsAbort ==
    /\ rpc = "snippet_attachments"
    /\ idx < Len(disc.snippets)
    /\ hist' = [hist EXCEPT !.attempts = Append(@, Attempt("snippets", disc.snippets[idx + 1], FALSE))]
    /\ Exit(1)
    /\ UNCHANGED <<run, forge, cfg, cpu, disc, idx, disk>>

\* for snippet in snippets.values(): try: backup_snippet_attachements(...)
\* except Exception
SnippetAttachments ==
    /\ rpc = "snippet_attachments"
    /\ IF idx < Len(disc.snippets)
       THEN /\ idx' = idx + 1
            /\ \E ok \in BOOLEAN :
                  /\ disk' = IF ok
                             THEN WriteFile(disk,
                                      Resolve(BackupDir \o <<"snippets", ToString(disc.snippets[idx + 1]),
                                                "snippet_" \o ToString(disc.snippets[idx + 1]) \o ".md">>),
                                      <<"description">>)
                             ELSE disk
                  /\ hist' = [hist EXCEPT !.attempts = Append(@, Attempt("snippets", disc.snippets[idx + 1], ok))]
            /\ UNCHANGED rpc
       ELSE rpc' = "return" /\ idx' = 0 /\ UNCHANGED <<disk, hist>>
    /\ UNCHANGED <<run, forge, cfg, cpu, disc, pool, exitcode>>

\* The routine and main return: the process ends with exit code 0.
Return ==
    /\ rpc = "return"
    /\ Exit(0)
    /\ UNCHANGED <<run, forge, cfg, cpu, disc, idx, disk, hist>>

Next ==
    \/ Login
    \/ Discover
    \/ \E kind \in CloneKinds : StartClonePhase(kind)
    \/ \E w \in 1..MaxCpu : WorkerTake(w)
    \/ \E w \in 1..MaxCpu : WorkerReturn(w)
    \/ \E kind \in CloneKinds : FinishClonePhase(kind)
    \/ Interrupt
    \/ WikiAttachments
    \/ BackupIssues
    \/ SnippetAttachments
    \/ Return

Spec == Init /\ [][Next]_vars

\* The steps of the program itself: the routine, a sequential program, goes on
\* while it can, and the pool's worker processes take and finish their tasks
\* (every operation of a worker function returns or raises).  The user's
\* interrupts are under no obligation to happen.
Progress ==
    \/ Login
    \/ Discover
    \/ \E kind \in CloneKinds : StartClonePhase(kind)
    \/ \E w \in 1..MaxCpu : WorkerTake(w)
    \/ \E w \in 1..MaxCpu : WorkerReturn(w)
    \/ \E kind \in CloneKinds : FinishClonePhase(kind)
    \/ WikiAttachments
    \/ BackupIssues
    \/ SnippetAttachments
    \/ Return

SpecLive == Spec /\ WF_vars(Progress)

(***************************************************************************)
(* A worker function on its own, for every outcome of its operations.      *)
(***************************************************************************)
InitWorker ==
    /\ run \in [kind : CloneKinds, id : 1..2, env : Envs, out : {<<>>}]
    /\ forge = BaseForge
    /\ cfg = Config(<<>>, <<>>, FALSE, FALSE, FALSE, FALSE)
    /\ cpu = 1
    /\ rpc = "worker"
    /\ disc = InitDiscovery
    /\ pool = NoPool
    /\ idx = 0
    /\ disk = NoFiles
    /\ exitcode = -1
    /\ hist = NoHist

RunArgs == <<Object(run.kind, run.id), TargetPath(run.kind, Object(run.kind, run.id))>>

\* The worker function runs to its return.
RunWorker ==
    /\ rpc = "worker"
    /\ run.out = <<>>
    /\ run' = [run EXCEPT !.out = <<WorkerFunction(run.kind, RunArgs, run.env)>>]
    /\ UNCHANGED <<forge, cfg, cpu, rpc, disc, pool, idx, disk, exitcode, hist>>

NextWorker == RunWorker

SpecWorker == InitWorker /\ [][NextWorker]_vars

(***************************************************************************)
(* Discovery on its own: every shape of the group graph (trees, forests,   *)
(* cycles) under a plain configuration, and the chain of groups under      *)
(* every configuration with at most one call of the forge that raises.     *)
(***************************************************************************)
\* A forge by the shape of its group graph and the owner of its last project.
ShapeForge(par, o) == [BaseForge EXCEPT !.parent = par, !.owner[MaxGroups] = o]

GroupIdLists ==
    {<<>>} \cup {<<g>> : g \in Groups} \cup {<<g, h>> : g, h \in Groups}

GoneSets ==
    {{}} \cup {{<<call, id>>} : call \in {"group", "project", "gwiki", "pwiki", "issues"},
                                 id \in Groups}

\* A forge with calls that raise and objects without the wikis attribute.
FlawedForge(gone, nw, o) == [BaseForge EXCEPT !.gone = gone, !.nowikis = nw, !.owner[1] = o]

ProjectIdLists == {<<>>, <<1>>, <<1, 2>>, <<2, 1>>, <<1, 1>>}

InitDiscover ==
    /\ run = NoRun
    /\ \/ \E par \in [Groups -> 0..MaxGroups], o \in 0..MaxGroups, gids \in GroupIdLists :
             /\ forge = ShapeForge(par, o)
             /\ cfg = Config(gids, <<>>, FALSE, FALSE, FALSE, FALSE)
       \/ \E gone \in GoneSets, nw \in {{}, {<<"P", MaxGroups>>}}, o \in 0..1,
             gids \in {<<>>, <<1>>, <<2>>}, pids \in ProjectIdLists,
             fl \in BOOLEAN \X BOOLEAN \X BOOLEAN \X BOOLEAN :
             /\ forge = FlawedForge(gone, nw, o)
             /\ cfg = Config(gids, pids, fl[1], fl[2], fl[3], fl[4])
    /\ cpu = 1
    /\ rpc = "discover"
    /\ disc = InitDiscovery
    /\ pool = NoPool
    /\ idx = 0
    /\ disk = NoFiles
    /\ exitcode = -1
    /\ hist = NoHist

NextDiscover == Discover

SpecDiscover == InitDiscover /\ [][NextDiscover]_vars

(***************************************************************************)
(* The functions of gitlab/download.py on their own: one call, or a call   *)
(* of find_matches after an earlier one.  run.arg is the argument,         *)
(* run.earlier the list the earlier call returned, run.out what the call   *)
(* returned or raised.                                                     *)
(***************************************************************************)
NoCall == [kind |-> "none", arg |-> <<>>, earlier |-> <<>>, out |-> <<>>]

InitDownload ==
    /\ run = NoCall
    /\ forge = BaseForge
    /\ cfg = Config(<<>>, <<>>, FALSE, FALSE, FALSE, FALSE)
    /\ cpu = 1
    /\ rpc = "download"
    /\ disc = InitDiscovery
    /\ pool = NoPool
    /\ idx = 0
    /\ disk = NoFiles
    /\ exitcode = -1
    /\ hist = NoHist

EarlierObjects == {Str(OneUpload), List(<<Str(TwoUploads)>>)}

\* An earlier call of find_matches, which returns normally.
EarlierFindMatches ==
    /\ rpc = "download"
    /\ run.kind = "none"
    /\ \E obj \in EarlierObjects :
          run' = [kind |-> "earlier", arg |-> obj, earlier |-> FindMatchesCall(obj, <<>>).found,
                  out |-> <<>>]
    /\ UNCHANGED <<forge, cfg, cpu, rpc, disc, pool, idx, disk, exitcode, hist>>

\* find_matches(obj, FILE_UPLOAD_PATTERN)
FindMatches ==
    /\ rpc = "download"
    /\ run.kind \in {"none", "earlier"}
    /\ \E obj \in JsonValues(StringLeaves) \cup JsonValues(MixedLeaves) :
          run' = [kind |-> "find_matches", arg |-> obj, earlier |-> run.earlier,
                  out |-> <<FindMatchesCall(obj, run.earlier)>>]
    /\ UNCHANGED <<forge, cfg, cpu, rpc, disc, pool, idx, disk, exitcode, hist>>

\* get_wiki_attachment_urls(obj, FILE_UPLOAD_PATTERN), as backup_wiki_attachements
\* calls it for a group or a project.
GetWikiAttachmentUrls ==
    /\ rpc = "download"
    /\ run.kind = "none"
    /\ \E tag \in {<<"G", 1>>, <<"P", MaxGroups>>}, contents \in Contents :
          LET obj == [web_url |-> WikiObject(forge, tag).web_url, contents |-> contents]
          IN run' = [kind |-> "wiki_urls", arg |-> obj, earlier |-> <<>>,
                     out |-> <<[urls |-> get_wiki_attachment_urls(obj), exc |-> "none"]>>]
    /\ UNCHANGED <<forge, cfg, cpu, rpc, disc, pool, idx, disk, exitcode, hist>>

\* get_issue_attachment_urls as backup_issue calls it: for an issue with
\* web_url left at "", for a note with the web_url of its issue.
GetIssueAttachmentUrls ==
    /\ rpc = "download"
    /\ run.kind = "none"
    /\ \E p \in {1, MaxGroups}, is_note \in BOOLEAN, text \in Texts, described \in BOOLEAN :
          LET issue == IssueObject(forge, p, 1, IF described THEN Str(text) ELSE Null)
              note == NoteObject(1, 1, text)
              urls == IF is_note THEN get_issue_attachment_urls(note, TRUE, issue.web_url)
                      ELSE get_issue_attachment_urls(issue, FALSE, <<>>)
          IN run' = [kind |-> "issue_urls",
                     arg |-> [is_note |-> is_note, issue |-> issue, note |-> note],
                     earlier |-> <<>>, out |-> <<[urls |-> urls, exc |-> "none"]>>]
    /\ UNCHANGED <<forge, cfg, cpu, rpc, disc, pool, idx, disk, exitcode, hist>>

NextDownload ==
    \/ EarlierFindMatches
    \/ FindMatches
    \/ GetWikiAttachmentUrls
    \/ GetIssueAttachmentUrls

SpecDownload == InitDownload /\ [][NextDownload]_vars

(***************************************************************************)
(* Properties.                                                             *)
(***************************************************************************)
\* The clone phase of kind has just written its results.json.
JustWritten(kind) ==
    /\ kind \in hist.written
    /\ rpc = AfterClone(kind)
    /\ pool.kind = "none"

\* The operations of env raise an exception no inner handler catches.
Unexpected(kind, env) ==
    /\ env.unpack = "ok"
    /\ env.clone = "ok"
    /\ \/ kind # "snippets" /\ env.branchall = "exc"
       \/ kind # "wikis" /\ env.branchall = "ok" /\ env.sidecar = "exc"

\* C1: when the clone phase of a kind finishes, the list it wrote to
\* results.json has one result record per item of the input mapping.
C1_ResultsCountMatchesInput ==
    \A kind \in CloneKinds :
        JustWritten(kind) =>
            /\ ResultsPath(kind) \in DOMAIN disk
            /\ Len(disk[ResultsPath(kind)]) = Len(Items(forge, disc, kind))
            /\ \A i \in 1..Len(disk[ResultsPath(kind)]) :
                  "success" \in DOMAIN disk[ResultsPath(kind)][i]

\* The results of two projects are written, one of them failed, after a worker
\* was interrupted.
C1_Witness ==
    /\ JustWritten("projects")
    /\ Len(disk[ResultsPath("projects")]) = 2
    /\ hist.signals # <<>>
    /\ \E i \in 1..2 : ~disk[ResultsPath("projects")][i]["success"]
    /\ \E i \in 1..2 : disk[ResultsPath("projects")][i]["success"]

\* C2: every result of clone_project and clone_wiki has success true if and
\* only if it has cloned true, no submodules or submodules-updated true, and
\* branches-updated true.
C2_SuccessIffFlags ==
    (run.out # <<>> /\ run.kind \in {"projects", "wikis"}) =>
        LET r == run.out[1].result IN
        r["success"] <=> /\ r["is_cloned"]
                         /\ (r["submodules"] = <<>> \/ r["is_submodules_updated"])
                         /\ r["is_branches_updated"]

C4_InterruptKeepsResults ==
    rpc = "exit" =>
        \A s \in 1..Len(hist.signals) : hist.signals[s].kind \in hist.written

\* C5: a clone phase creates its pool with max(1, n - 2) workers for n CPUs.
C5_PoolSizeIsMax ==
    pool.kind # "none" => pool.size = Max(1, cpu - 2)

\* The order of the phases of the backup routine.
PhaseRank(pc) ==
    CASE pc = "login" -> 0
      [] pc = "discover" -> 1
      [] pc = "projects" -> 2
      [] pc = "wikis" -> 3
      [] pc = "wiki_attachments" -> 4
      [] pc = "issues" -> 5
      [] pc = "snippets" -> 6
      [] pc = "snippet_attachments" -> 7
      [] pc = "return" -> 8
      [] OTHER -> 9

\* C6: the phases run one after another: the routine only moves to a later
\* phase, and it leaves the clone phase of a kind only when no item is
\* queued or in progress and the results.json of the kind is written.
C6_PhasesSequential ==
    [][rpc' # rpc =>
          /\ PhaseRank(rpc') > PhaseRank(rpc)
          /\ (pool.kind # "none" /\ rpc' # "exit") =>
                /\ pool.queue > Len(pool.args)
                /\ \A w \in 1..pool.size : pool.busy[w] = 0
                /\ pool'.kind = "none"
                /\ ResultsPath(rpc) \in DOMAIN disk'
                /\ Len(disk'[ResultsPath(rpc)]) = Len(pool.args)]_vars

\* A wiki is being cloned after the results of the projects were written.
C6_Witness ==
    /\ rpc = "wikis"
    /\ "projects" \in hist.written
    /\ pool.kind = "wikis"
    /\ \E w \in 1..pool.size : pool.busy[w] # 0

\* The key of a result record that tells its kind.
IdKey(kind) ==
    CASE kind = "projects" -> "project_id"
      [] kind = "wikis" -> "wiki_id"
      [] OTHER -> "snippet_id"

\* C7: at the end of a run that cloned projects, wikis and snippets, the
\* result list of each kind is in a results.json on disk.
C7_OneResultsFilePerKind ==
    (rpc = "exit" /\ hist.written = CloneKinds) =>
        \A kind \in CloneKinds :
            \E path \in DOMAIN disk :
                /\ path[Len(path)] = "results.json"
                /\ Len(disk[path]) = Len(Items(forge, disc, kind))
                /\ \A i \in 1..Len(disk[path]) : IdKey(kind) \in DOMAIN disk[path][i]

\* C8: a NotFound or List error for a single object does not abort discovery.
C8_InaccessibleObjectIsSkipped ==
    (rpc # "discover" /\ forge.gone # {}) => (disc.exc = "none" /\ rpc # "exit")

\* C9: discovery from a requested group ends without exhausting the stack on
\* every group graph, and descends into no group twice.
C9_VisitedGroupsAreTerminal ==
    (rpc # "discover" /\ Len(cfg.gitlab_group_ids) = 1) =>
        /\ disc.exc # "RecursionError"
        /\ \A i, j \in 1..Len(disc.calls) : disc.calls[i] = disc.calls[j] => i = j

\* The groups reachable from the groups of S through the subgroup relation.
RECURSIVE ReachableGroups(_, _)
ReachableGroups(parent, S) ==
    LET T == S \cup {h \in Groups : parent[h] \in S}
    IN IF T = S THEN S ELSE ReachableGroups(parent, T)

RECURSIVE Ancestor(_, _, _)
Ancestor(parent, g, k) ==
    IF k = 0 \/ g = 0 THEN g ELSE Ancestor(parent, parent[g], k - 1)

\* The subgroup relation has no cycle.
IsForest(parent) == \A g \in Groups : Ancestor(parent, g, MaxGroups) = 0

\* C10: on a group tree, the recursion over the requested groups returns,
\* the group map holds exactly the reachable groups and the project map
\* exactly the projects of the reachable groups, each once.
C10_RecursionCollectsAllDepths ==
    (/\ rpc # "discover"
     /\ IsForest(forge.parent)
     /\ forge.gone = {}
     /\ cfg.gitlab_project_ids = <<>>
     /\ ~cfg.include_personal_projects) =>
        LET reach == ReachableGroups(forge.parent, SeqToSet(cfg.gitlab_group_ids))
            found == {p \in Projects : forge.owner[p] \in reach}
        IN /\ disc.exc = "none"
           /\ SeqToSet(disc.groups) = reach
           /\ SeqToSet(disc.projects) = found
           /\ Len(disc.projects) = Cardinality(found)
           /\ Len(disc.groups) = Cardinality(reach)

\* The chain of groups, requested by its top group: a project at every level.
C10_Witness ==
    /\ rpc # "discover"
    /\ forge = BaseForge
    /\ cfg = Config(<<1>>, <<>>, FALSE, FALSE, FALSE, FALSE)
    /\ disc.exc = "none"
    /\ Len(disc.groups) = MaxGroups
    /\ Len(disc.projects) = MaxGroups

\* The projects a discovery is asked for: those of the requested groups and of
\* their subgroups at any depth, those requested by ID that the forge has, and
\* the user's own when personal projects are included.
RequestedProjects ==
    LET reach == ReachableGroups(forge.parent, SeqToSet(cfg.gitlab_group_ids))
    IN {p \in Projects : forge.owner[p] \in reach}
       \cup {p \in SeqToSet(cfg.gitlab_project_ids) : <<"project", p>> \notin forge.gone}
       \cup (IF cfg.include_personal_projects THEN {p \in Projects : forge.owner[p] = 0} ELSE {})

\* C11: the project map a discovery returns has one entry per project it was
\* asked for, however many ways lead to the project: by its ID, listed once
\* or twice, through a requested group, as a personal project.
C11_ProjectsDeduplicated ==
    (rpc # "discover" /\ disc.exc = "none") =>
        /\ \A i, j \in 1..Len(disc.projects) : disc.projects[i] = disc.projects[j] => i = j
        /\ SeqToSet(disc.projects) = RequestedProjects

\* Project 1 is the user's own, is requested twice by ID together with project
\* 2 of a requested group, and personal projects are included.
C11_Witness ==
    /\ rpc # "discover"
    /\ disc.exc = "none"
    /\ forge.owner[1] = 0
    /\ cfg.gitlab_group_ids = <<2>>
    /\ cfg.gitlab_project_ids = <<1, 1>>
    /\ cfg.include_personal_projects
    /\ SeqToSet(disc.projects) = 1..MaxGroups

\* The matches of the string leaves of a value, in depth-first order.
RECURSIVE MatchesOf(_)
RECURSIVE MatchesOfItems(_)
MatchesOfItems(items) ==
    IF items = <<>> THEN <<>> ELSE MatchesOf(Head(items)) \o MatchesOfItems(Tail(items))

MatchesOf(obj) ==
    CASE obj.t = "str" -> FindAll(obj.v, 1)
      [] obj.t = "list" -> MatchesOfItems(obj.v)
      [] obj.t = "dict" -> MatchesOfItems([i \in 1..Len(obj.v) |-> obj.v[i][2]])
      [] OTHER -> <<>>

\* The types of the leaves and containers of a value.
RECURSIVE TypesOf(_)
TypesOf(obj) ==
    {obj.t} \cup
    (CASE obj.t = "list" -> UNION {TypesOf(obj.v[i]) : i \in 1..Len(obj.v)}
       [] obj.t = "dict" -> UNION {TypesOf(obj.v[i][2]) : i \in 1..Len(obj.v)}
       [] OTHER -> {})

\* C12: find_matches does not raise on a value with number, boolean or null
\* leaves, and returns the matches of its string leaves.
C12_ScalarLeavesAreSkipped ==
    (run.kind = "find_matches" /\ TypesOf(run.arg) \cap {"num", "bool", "null"} # {}) =>
        /\ run.out[1].exc = "none"
        /\ run.out[1].found = MatchesOf(run.arg)

\* C13: on a value made of mappings, sequences and strings, find_matches
\* returns the matches of the string leaves in depth-first order, each once,
\* and nothing of what an earlier call returned.
C13_MatchesInEncounterOrder ==
    (run.kind = "find_matches" /\ TypesOf(run.arg) \subseteq {"dict", "list", "str"}) =>
        /\ run.out[1].exc = "none"
        /\ run.out[1].found = MatchesOf(run.arg)
        /\ TypesOf(run.arg) \subseteq {"dict", "list"} => run.out[1].found = <<>>

\* After an earlier call that found a match: a mapping of a list of two texts,
\* three matches in all.
C13_Witness ==
    /\ run.kind = "find_matches"
    /\ run.earlier # <<>>
    /\ run.arg = Dict(<<List(<<Str(TwoUploads), Str(OneUpload)>>)>>)
    /\ run.out[1].found = <<<<Upload, "a.png">>, <<Upload, "-/", "b.png">>, <<Upload, "x.png">>>>

RECURSIVE Flatten(_)
Flatten(seqs) == IF seqs = <<>> THEN <<>> ELSE Head(seqs) \o Flatten(Tail(seqs))

\* Token j of a match starts the marker "uploads/-/".
MarkerAt(m, j) == j >= 1 /\ j < Len(m) /\ m[j] = Upload /\ m[j + 1] = "-/"

\* A match with every marker "uploads/-/" turned into "-/wikis/uploads/".
WikiScoped(m) ==
    Flatten([j \in 1..Len(m) |->
                IF MarkerAt(m, j) THEN <<"-/", "wikis/", Upload>>
                ELSE IF MarkerAt(m, j - 1) THEN <<>> ELSE <<m[j]>>])

\* A match with the "-/" of every marker "uploads/-/" dropped.
Unscoped(m) ==
    Flatten([j \in 1..Len(m) |-> IF MarkerAt(m, j - 1) THEN <<>> ELSE <<m[j]>>])

\* C14: the wiki attachment URLs of a container are, match by match in the
\* order of the matches of its pages, its web_url, "/-/wikis/" and the match
\* with the marker "uploads/-/" rewritten to "-/wikis/uploads/".
C14_WikiUrlsResolved ==
    run.kind = "wiki_urls" =>
        LET contents == run.arg.contents
            ms == MatchesOf(List([i \in 1..Len(contents) |-> Str(contents[i])]))
            urls == run.out[1].urls
        IN /\ Len(urls) = Len(ms)
           /\ \A i \in 1..Len(ms) :
                 urls[i] = run.arg.web_url \o <<"/-/wikis/">> \o WikiScoped(ms[i])

\* "uploads/-/abc/file.png" on the one page of a project resolves to
\* <web_url>/-/wikis/-/wikis/uploads/abc/file.png.
C14_Witness ==
    /\ run.kind = "wiki_urls"
    /\ run.arg.web_url = ProjectObject(forge, MaxGroups).web_url
    /\ run.arg.contents = <<MarkerUpload>>
    /\ run.out[1].urls = <<ProjectObject(forge, MaxGroups).web_url
                             \o <<"/-/wikis/", "-/", "wikis/", Upload, "abc/", "file.png">>>>

\* The text get_issue_attachment_urls searches, and the URLs it returned.
IssueText == IF run.arg.is_note THEN run.arg.note.body ELSE run.arg.issue.description
ProjectUrl == ProjectObject(forge, run.arg.issue.project_id).web_url

\* C15 as stated: the URLs of a note are prefixed with the URL of its issue,
\* those of an issue with the URL of its project.
C15_NotePrefixIsIssueUrl ==
    run.kind = "issue_urls" =>
        LET ms == MatchesOf(IssueText)
            urls == run.out[1].urls
            prefix == IF run.arg.is_note THEN run.arg.issue.web_url ELSE ProjectUrl
        IN /\ Len(urls) = Len(ms)
           /\ \A i \in 1..Len(ms) : urls[i] = prefix \o <<"/">> \o Unscoped(ms[i])

\* C15, amended: the URLs of an issue and of a note are, match by match, the
\* URL of the project (the URL of the issue, for a note of its parent issue,
\* up to "/-/issues/"), "/" and the match with "uploads/-/" turned into
\* "uploads/".
C15_IssueUrlsUseProjectUrl ==
    run.kind = "issue_urls" =>
        LET ms == MatchesOf(IssueText)
            urls == run.out[1].urls
        IN /\ Len(urls) = Len(ms)
           /\ \A i \in 1..Len(ms) : urls[i] = ProjectUrl \o <<"/">> \o Unscoped(ms[i])

\* A note with "uploads/-/abc/file.png" resolves to <project URL>/uploads/abc/file.png.
C15_Witness ==
    /\ run.kind = "issue_urls"
    /\ run.arg.is_note
    /\ run.arg.note.body = Str(MarkerUpload)
    /\ run.arg.issue.project_id = MaxGroups
    /\ run.out[1].urls = <<ProjectObject(forge, MaxGroups).web_url
                             \o <<"/", Upload, "abc/", "file.png">>>>


\* C16: the process ends with exit code 0 when the routine has returned, and
\* with exit code 1 when an exception or an interrupt of the user ended it.
C16_ExitCodeReflectsOutcome ==
    [][(rpc # "exit" /\ rpc' = "exit") => exitcode' = (IF rpc = "return" THEN 0 ELSE 1)]_vars

\* The items of a loop that have an attempt on record.
Attempted(loop) ==
    {hist.attempts[i].item : i \in {j \in 1..Len(hist.attempts) : hist.attempts[j].loop = loop}}
Range(seq) == {seq[i] : i \in 1..Len(seq)}
BackupLoops == {"wiki_attachments", "issues", "snippet_attachments"}

\* Every item of the loops that lie before the position pc was attempted; the
\* notes of an issue are attempted all or, when they could not be listed or
\* the issue failed, not at all.
LoopsAttempted(pc) ==
    /\ PhaseRank(pc) > PhaseRank("wiki_attachments") => Range(disc.wikis) \subseteq Attempted("wikis")
    /\ PhaseRank(pc) > PhaseRank("issues") => Range(disc.issues) \subseteq Attempted("issues")
    /\ PhaseRank(pc) > PhaseRank("snippet_attachments")
          => Range(disc.snippets) \subseteq Attempted("snippets")
    /\ \A n \in Attempted("notes") : \A k \in 1..forge.notes : <<n[1], k>> \in Attempted("notes")

WrittenPaths(kind, arg) ==
    {arg[2]}
    \cup (CASE kind = "projects" -> {Resolve(SidecarPath(arg[2], "project", arg[1].id))}
            [] kind = "snippets" -> {Resolve(SidecarPath(arg[2], "snippet", arg[1].id))}
            [] OTHER -> {})

\* The path lies in the directory, or is the directory.
Inside(path, dir) == Len(dir) <= Len(path) /\ SubSeq(path, 1, Len(dir)) = dir

\* C18: in a clone phase no path written for an item is a path written for
\* another item, and none lies inside the clone directory of another item.
C18_ItemPathsDisjoint ==
    pool.kind # "none"
    => \A i \in DOMAIN pool.args, j \in DOMAIN pool.args :
          i # j => \A path \in WrittenPaths(pool.kind, pool.args[i]) :
                       /\ path \notin WrittenPaths(pool.kind, pool.args[j])
                       /\ ~Inside(path, pool.args[j][2])

\* The sidecar files a run of a worker function has written, resolved.
SidecarsWritten(out) ==
    {Resolve(out.ops[k][2]) : k \in {n \in 1..Len(out.ops) : out.ops[n][1] = "sidecar"}}

\* The directory a path lies in.
Parent(path) == SubSeq(path, 1, Len(path) - 1)

\* C19: when the worker function of a project, a wiki or a snippet has
\* completed its item, it has written a sidecar file in the parent of the clone
\* directory, and none inside the clone directory.
C19_SidecarForEveryKind ==
    (run.out # <<>> /\ "success" \in DOMAIN run.out[1].result /\ run.out[1].result["success"] = TRUE)
    => /\ \E path \in SidecarsWritten(run.out[1]) : Parent(path) = Parent(RunArgs[2])
       /\ \A path \in SidecarsWritten(run.out[1]) : ~Inside(path, RunArgs[2])

\* C20: a failed login ends the run with a non-zero exit code before anything
\* is discovered, cloned or backed up, and no step other than the login and
\* the discovery ends the run with a non-zero exit code.
C20_OnlyLoginEndsNonZero ==
    [][/\ (rpc = "login" /\ rpc' = "exit")
             => exitcode' # 0 /\ disc' = InitDiscovery /\ disk' = NoFiles /\ hist' = NoHist
       /\ (rpc # "exit" /\ rpc' = "exit" /\ exitcode' # 0) => rpc \in {"login", "discover"}]_vars

\* The positions at which a run has performed an operation.
OpsAt(out, name) == {k \in 1..Len(out.ops) : out.ops[k][1] = name}

\* C21: a project or wiki that is cloned, declares a submodule, has its
\* submodules updated without error and its branches updated, has
\* is_submodules_updated true and success true in its result.
C21_SubmodulesUpdatedSucceeds ==
    (/\ run.out # <<>> /\ run.kind \in {"projects", "wikis"}
     /\ run.out[1].result["is_cloned"]
     /\ run.env.submodules # <<>> /\ OpsAt(run.out[1], "submodule_update") # {}
     /\ run.env.subupdate = "ok"
     /\ run.out[1].result["is_branches_updated"]
     /\ run.env.sidecar = "ok")
    => /\ run.out[1].result["is_submodules_updated"]
       /\ run.out[1].result["success"]

\* The place of an operation in the body of a worker function.
StepRank(name) ==
    CASE name = "clone" -> 1
      [] name = "submodule_update" -> 2
      [] name = "branch_all" -> 3
      [] name = "track" -> 4
      [] name = "fetch" -> 5
      [] name = "pull" -> 6
      [] OTHER -> 7

\* C22: the operations of an item are performed in the order clone, submodule
\* update, enumeration of the remote branches, tracking, fetch, pull, sidecar
\* write, each but the tracking at most once; and a cloned project or wiki has
\* its remote branches enumerated when it has no submodules, when their update
\* succeeded and when it failed.
C22_StepsInOrder ==
    run.out # <<>> =>
        LET ops == run.out[1].ops IN
        /\ \A i \in 1..Len(ops), j \in 1..Len(ops) :
              i < j => \/ StepRank(ops[i][1]) < StepRank(ops[j][1])
                       \/ ops[i][1] = "track" /\ ops[j][1] = "track"
        /\ (run.kind \in {"projects", "wikis"} /\ run.out[1].result["is_cloned"]
            /\ run.env.subupdate # "kbi")
              => OpsAt(run.out[1], "branch_all") # {}

\* A project was cloned, the update of its submodule failed, and its branches
\* were enumerated, tracked, fetched and pulled and its sidecar written.
C22_Witness ==
    /\ run.out # <<>> /\ run.kind = "projects"
    /\ run.env.submodules # <<>> /\ run.env.subupdate = "exc"
    /\ \A name \in {"clone", "submodule_update", "branch_all", "track", "fetch", "pull", "sidecar"} :
          OpsAt(run.out[1], name) # {}
    /\ Cardinality(OpsAt(run.out[1], "track")) = MaxBranches

\* The operations of a name a run has performed, in their order.
OpsNamed(out, name) == SelectSeq(out.ops, LAMBDA op : op[1] = name)

\* C23: for a project or wiki whose remote branches were enumerated: with more
\* than one remote branch every branch is tracked, in order, whether or not
\* the tracking of another failed, then fetch runs once and, unless it raised,
\* pull once, and is_branches_updated is true iff both succeeded; with at most
\* one remote branch nothing is tracked, fetched or pulled and
\* is_branches_updated is true.
C23_BranchesUpdatedByFetchPull ==
    (/\ run.out # <<>> /\ run.kind \in {"projects", "wikis"}
     /\ OpsAt(run.out[1], "branch_all") # {} /\ run.env.branchall = "ok")
    => LET out == run.out[1]
           branches == out.result["branches"]
           tracked == OpsNamed(out, "track")
       IN /\ branches = ParseRemoteBranches(run.env.lines)
          /\ IF Len(branches) > 1
             THEN /\ Len(tracked) = Len(branches)
                  /\ \A i \in 1..Len(branches) : tracked[i][2] = branches[i]
                  /\ Len(OpsNamed(out, "fetch")) = 1
                  /\ Len(OpsNamed(out, "pull")) = (IF run.env.fetchpull \in {"ok", "pull_exc"} THEN 1 ELSE 0)
                  /\ out.result["is_branches_updated"] <=> run.env.fetchpull = "ok"
             ELSE /\ tracked = <<>> /\ OpsNamed(out, "fetch") = <<>> /\ OpsNamed(out, "pull") = <<>>
                  /\ out.result["is_branches_updated"]

\* The tracking of the first of two branches failed, the second was tracked,
\* and fetch and pull succeeded.
C23_Witness ==
    /\ run.out # <<>> /\ run.kind = "wikis"
    /\ Len(run.out[1].result["branches"]) = 2
    /\ OpsNamed(run.out[1], "track")[1][3] = "exc"
    /\ Len(OpsNamed(run.out[1], "track")) = 2
    /\ run.out[1].result["is_branches_updated"]

\* C24: when the clone of an item fails, the clone is the only operation
\* performed for it, and its result has is_cloned, is_submodules_updated,
\* is_branches_updated and success false.
C24_FailedCloneStopsItem ==
    (run.out # <<>> /\ run.env.unpack = "ok" /\ run.env.clone # "ok")
    => LET out == run.out[1] IN
       /\ Len(out.ops) = 1 /\ out.ops[1][1] = "clone"
       /\ \A key \in {"is_cloned", "is_submodules_updated", "is_branches_updated", "success"}
                     \cap DOMAIN out.result : out.result[key] = FALSE
       /\ {"is_cloned", "success"} \subseteq DOMAIN out.result

\* The clone of a project raised an error; the clone of a snippet was
\* interrupted.
C24_Witness ==
    /\ run.out # <<>>
    /\ \/ run.kind = "projects" /\ run.env.clone = "exc"
       \/ run.kind = "snippets" /\ run.env.clone = "kbi"
    /\ ~run.out[1].result["success"]

\* C25: a clone phase that is entered with items to clone eventually has the
\* results of all of them written to results.json, for every number of items
\* and of CPUs, unless the user interrupts it.
C25_ClonePhaseCompletes ==
    \A kind \in CloneKinds :
        (rpc = kind /\ Items(forge, disc, kind) # <<>>) ~> (kind \in hist.written \/ hist.signals # <<>>)

\* The probe of the wiki of a group ("G") or project ("P") returns a page: the
\* object has the wikis attribute, the listing does not raise, and the wiki
\* has a page.
ProbeFindsPages(letter, id) ==
    /\ <<letter, id>> \notin forge.nowikis
    /\ <<IF letter = "G" THEN "gwiki" ELSE "pwiki", id>> \notin forge.gone
    /\ <<letter, id>> \in forge.pages

\* C26: with include_wikis, the wiki map a discovery returns holds exactly the
\* discovered groups, under the key G<id>, and the discovered projects, under
\* the key P<id>, whose wiki probe returned a page, each once.
C26_WikiMapKeyedByKind ==
    (rpc # "discover" /\ disc.exc = "none" /\ cfg.include_wikis) =>
        /\ SeqToSet(disc.wikis) =
              {<<"G", g>> : g \in {h \in SeqToSet(disc.groups) : ProbeFindsPages("G", h)}}
              \cup {<<"P", p>> : p \in {q \in SeqToSet(disc.projects) : ProbeFindsPages("P", q)}}
        /\ \A i, j \in 1..Len(disc.wikis) : disc.wikis[i] = disc.wikis[j] => i = j

\* A group and a project with the same ID both have a page and are both in
\* the wiki map, while the wiki listing of another discovered group raised.
C26_Witness ==
    /\ rpc # "discover" /\ disc.exc = "none" /\ cfg.include_wikis
    /\ {<<"G", MaxGroups>>, <<"P", MaxGroups>>} \subseteq SeqToSet(disc.wikis)
    /\ \E g \in SeqToSet(disc.groups) : <<"gwiki", g>> \in forge.gone

\* C27: when the forge has no project for an explicit project ID, and nothing
\* else fails, discovery returns, and its project map holds the projects of
\* the other IDs and no entry for the missing one, whether the missing ID is
\* the first of the list or not.
C27_MissingProjectIdIsSkipped ==
    (/\ rpc # "discover"
     /\ cfg.gitlab_group_ids = <<>> /\ ~cfg.include_personal_projects
     /\ \E p \in SeqToSet(cfg.gitlab_project_ids) : forge.gone = {<<"project", p>>})
    => /\ disc.exc = "none"
       /\ SeqToSet(disc.projects) =
             {p \in SeqToSet(cfg.gitlab_project_ids) : <<"project", p>> \notin forge.gone}

\* The outcomes a worker function of a kind can meet.
KindReads(kind) ==
    CASE kind = "projects" -> {"clone", "subupdate", "branchall", "fetchpull", "sidecar"}
      [] kind = "wikis" -> {"clone", "subupdate", "branchall", "fetchpull"}
      [] OTHER -> {"clone", "sidecar"}

\* C28: a worker function returns a result record for every argument and
\* every outcome of its operations and raises nothing; the record has success
\* false when the run was interrupted, when the unpacking of the argument
\* failed (for a project or a snippet the handler then fails too, on the
\* unbound item), and when an operation raised an error no inner handler
\* catches.
C28_WorkerAlwaysReturns ==
    run.out # <<>> =>
        /\ run.out[1].exc = "none"
        /\ "success" \in DOMAIN run.out[1].result
        /\ (\/ run.env.unpack = "exc"
            \/ \E f \in KindReads(run.kind) : run.env[f] = "kbi"
            \/ Unexpected(run.kind, run.env))
              => run.out[1].result["success"] = FALSE

\* The unpacking of the argument of clone_project failed: the item is unbound
\* and the record is returned with success false.
C28_Witness ==
    /\ run.out # <<>> /\ run.kind = "projects"
    /\ run.env.unpack = "exc"
    /\ ~run.out[1].bound
    /\ run.out[1].exc = "none"
    /\ run.out[1].result["success"] = FALSE

\* The identity a worker function of a kind records for an item and its
\* target path: the ID, the URL and the path.
Identity(kind, arg) ==
    CASE kind = "projects" ->
            [project_id |-> arg[1].id, project_url |-> arg[1].web_url, project_path |-> arg[2]]
      [] kind = "wikis" ->
            [wiki_id |-> arg[1].id, wiki_url |-> arg[1].web_url \o <<".wiki.git">>, wiki_path |-> arg[2]]
      [] OTHER ->
            [snippet_id |-> arg[1].id, snippet_url |-> arg[1].web_url, snippet_path |-> arg[2]]

\* C29: the list a clone phase writes to results.json is in the order of the
\* input mapping: its i-th record has the ID, the URL and the target path of
\* the i-th item.
C29_ResultsInInputOrder ==
    \A kind \in CloneKinds :
        JustWritten(kind) =>
            LET written == disk[ResultsPath(kind)]
                args == MappedArgs(kind, Items(forge, disc, kind))
            IN /\ Len(written) = Len(args)
               /\ \A i \in 1..Len(args) :
                     \A key \in DOMAIN Identity(kind, args[i]) :
                         written[i][key] = Identity(kind, args[i])[key]

\* The results of two wikis are written, the first failed, the second
\* successful.
C29_Witness ==
    /\ JustWritten("wikis")
    /\ Len(disk[ResultsPath("wikis")]) = 2
    /\ disk[ResultsPath("wikis")][1]["wiki_url"] # disk[ResultsPath("wikis")][2]["wiki_url"]
    /\ ~disk[ResultsPath("wikis")][1]["success"]
    /\ disk[ResultsPath("wikis")][2]["success"]

\* The positions of hist.attempts with an attempt of a loop for an item.
AttemptsAt(loop, item) ==
    {i \in 1..Len(hist.attempts) : hist.attempts[i].loop = loop /\ hist.attempts[i].item = item}

\* The attempt at a position of hist.attempts is the one of a loop for an item
\* with an outcome.
IsAttempt(i, loop, item, ok) ==
    /\ hist.attempts[i].loop = loop
    /\ hist.attempts[i].item = item
    /\ hist.attempts[i].ok = ok

\* C30: a note is backed up only after the backup of its issue succeeded and
\* the notes were listed, and before any other issue is begun; after a failed
\* backup or listing no note of the issue is attempted; after a failed note the
\* remaining notes are attempted; and every issue is attempted whatever
\* happened to the issues before it.
C30_NotesFollowTheirIssue ==
    /\ \A j \in 1..Len(hist.attempts) :
          hist.attempts[j].loop = "notes" =>
              LET issue == hist.attempts[j].item[1] IN
              \E i \in 1..(j - 1) :
                  /\ IsAttempt(i, "issues", issue, TRUE)
                  /\ IsAttempt(i + 1, "listing", issue, TRUE)
                  /\ \A k \in (i + 2)..j : hist.attempts[k].loop = "notes"
    /\ \A i \in 1..Len(hist.attempts) :
          (hist.attempts[i].loop = "listing" /\ hist.attempts[i].ok) =>
              \A k \in 1..forge.notes :
                  /\ i + k <= Len(hist.attempts)
                  /\ hist.attempts[i + k].loop = "notes"
                  /\ hist.attempts[i + k].item = <<hist.attempts[i].item, k>>
    /\ \A n \in 1..Len(disc.issues) :
          (rpc \in {"snippets", "snippet_attachments", "return"} \/ (rpc = "issues" /\ idx >= n))
              => Cardinality(AttemptsAt("issues", disc.issues[n])) = 1

\* The first issue failed and has no note on record; the second issue was
\* backed up, its first note failed and its second note was backed up.
C30_Witness ==
    /\ Len(disc.issues) = 2 /\ rpc = "return"
    /\ \E i \in 1..(Len(hist.attempts) - 4) :
          /\ IsAttempt(i, "issues", disc.issues[1], FALSE)
          /\ IsAttempt(i + 1, "issues", disc.issues[2], TRUE)
          /\ IsAttempt(i + 3, "notes", <<disc.issues[2], 1>>, FALSE)
          /\ IsAttempt(i + 4, "notes", <<disc.issues[2], 2>>, TRUE)
=============================================================================
